---- MODULE Spec2Model ----
\* Model of github.com/thiagonache/bench (bench.go): the Tester's worker pool
\* (Run, DoRequest), its counters and TimeRecorder, and the metrics step.
EXTENDS Integers, Sequences, FiniteSets, TLC

\* ---------------------------------------------------------------- bounds
MaxRequests == 3
MaxConcurrency == 2
MaxLatency == 1

Workers == 1..MaxConcurrency
Tokens == 1..MaxRequests
Latencies == 1..MaxLatency

\* ---------------------------------------------------------------- values
\* What one t.client.Do(req) can yield: a response with status 200, a response
\* with another status, or a transport error (err != nil).  http.NewRequest
\* cannot fail for a Tester that NewTester accepted (same URL parse, fixed
\* method), so its error branch is not an input.
Outcomes == {"ok200", "non200", "transportErr"}

TesterURL == "http://fake.url"

\* The zero value Stats{} that NewTester stores in tester.stats.  Mean is the
\* quotient <<totalTime, nreq>>; <<0, 1>> is 0.0.
ZeroStats ==
  [URL |-> "", Mean |-> <<0, 1>>, P50 |-> 0, P90 |-> 0, P99 |-> 0,
   Failures |-> 0, Requests |-> 0, Successes |-> 0]

VARIABLES
  requests,        \* t.requests
  Concurrency,     \* t.Concurrency
  Graphs,          \* t.Graphs
  ExportStats,     \* t.ExportStats
  stats,           \* t.stats
  ExecutionsTime,  \* t.TimeRecorder.ExecutionsTime
  wg,              \* counter of t.wg
  Work,            \* t.Work: "open" or "closed" (capacity 0, nothing buffered)
  x,               \* loop variable of the producer goroutine = sends completed
  producer,        \* position of the producer goroutine
  spawned,         \* loop variable of the goroutine that starts the workers
  pc,              \* position of each worker goroutine
  tok,             \* the token a worker took in its current iteration (0: none)
  resp,            \* outcome of the worker's current t.client.Do
  run,             \* position of Run
  result,          \* the error Run returned ("none" while it has not returned)
  produced,        \* what Run has written: graphs, stats file, summary
  recvOf,          \* history: receives from t.Work that yielded each token
  reqOf,           \* history: RecordRequest calls made for each token
  failed,          \* history: the worker has called RecordFailure
  outcomes,        \* history: how many calls ended in each outcome
  arg,             \* a direct call of an exported function: its name and arguments
  ret,             \* what that call returned (NoRet while it has not been made)
  rt               \* direct callers of RecordTime: the holder of TimeRecorder.mu
                   \* (0: unlocked), each caller's position and the slice it read

vars == <<requests, Concurrency, Graphs, ExportStats, stats, ExecutionsTime,
          wg, Work, x, producer, spawned, pc, tok, resp, run,
          result, produced, recvOf, reqOf, failed, outcomes, arg, ret, rt>>

cfgVars == <<requests, Concurrency, Graphs, ExportStats>>
workerVars == <<pc, tok, resp>>
runVars == <<run, result, produced>>
histVars == <<recvOf, reqOf, failed, outcomes>>
callVars == <<arg, ret, rt>>

\* No direct call: the Tester is only driven through Run.
NoArg == [fn |-> "none"]
NoRet == [fn |-> "none"]
NoCallers == [mu |-> 0]

\* ---------------------------------------------------------------- helpers
RECURSIVE SumOver(_, _)
SumOver(f, S) ==
  IF S = {} THEN 0
  ELSE LET e == CHOOSE e \in S : TRUE IN f[e] + SumOver(f, S \ {e})

\* ---------------------------------------------------------------- counters
RecordRequestStatsTwice(s) == [s EXCEPT !.Requests = @ + 2]
\* Tester.RecordRequest
RecordRequestStats(s) == [s EXCEPT !.Requests = @ + 1]

RecordSuccessStatsNone(s) == s
\* Tester.RecordSuccess
RecordSuccessStats(s) == [s EXCEPT !.Successes = @ + 1]

RecordFailureStatsNone(s) == s
\* Tester.RecordFailure
RecordFailureStats(s) == [s EXCEPT !.Failures = @ + 1]

\* TimeRecorder.RecordTime
RecordTimeAppend(times, executionTime) == Append(times, executionTime)

\* ---------------------------------------------------------------- DoRequest
AfterDoStatusFirst(o) == IF o = "ok200" THEN "rectime" ELSE "recfail"
AfterDoAlwaysTime(o) == "rectime"
\* DoRequest after t.client.Do: err != nil goes to RecordFailure and returns,
\* any response goes on to TimeRecorder.RecordTime.
AfterDo(o) == IF o = "transportErr" THEN "recfail" ELSE "rectime"

AfterRecordTimeNoCheck(o) == "recsucc"
\* DoRequest after RecordTime: resp.StatusCode != http.StatusOK goes to
\* RecordFailure, status 200 to RecordSuccess.
AfterRecordTime(o) == IF o # "ok200" THEN "recfail" ELSE "recsucc"

AfterFailureContinue == "recv"
AfterFailureNoDone == "done"
\* DoRequest after RecordFailure: return.
AfterFailure == "exit"

\* DoRequest after RecordSuccess: next iteration of `for range t.Work`.
AfterSuccess == "recv"

\* ---------------------------------------------------------------- producer
ProducerNextOneLess(n, reqs) == IF n + 1 < reqs THEN "send" ELSE "close"
\* The producer's for loop: another send while x < t.requests, then close.
ProducerNext(n, reqs) == IF n < reqs THEN "send" ELSE "close"

\* ---------------------------------------------------------------- metrics
PercentileIdxCeil(n, pct) == ((n * pct + 99) \div 100) - 1
\* int(math.Round(float64(n)*p)) - 1 for p = pct/100, rounding half away from
\* zero; the 0-based index into the sorted samples.  The float64 products
\* n*0.5, n*0.9 and n*0.99 round to the exact product whenever that is a
\* multiple of 0.5, so the integer form gives the same index.
PercentileIdx(n, pct) == ((n * pct + 50) \div 100) - 1

SortedTimes(times) == SortSeq(times, LAMBDA a, b : a < b)

SetMetricsURLFirst(s, times, url) ==
  IF Len(times) < 1
  THEN [err |-> "ErrTimeNotRecorded", stats |-> [s EXCEPT !.URL = url],
        times |-> times]
  ELSE LET sorted == SortedTimes(times)
           n == Len(times)
       IN [err |-> "nil",
           stats |-> [s EXCEPT !.P50 = sorted[PercentileIdx(n, 50) + 1],
                               !.P90 = sorted[PercentileIdx(n, 90) + 1],
                               !.P99 = sorted[PercentileIdx(n, 99) + 1],
                               !.URL = url,
                               !.Mean = <<SumOver(sorted, 1..n), n>>],
           times |-> sorted]
SetMetricsOffByOne(s, times, url) ==
  IF Len(times) < 2
  THEN [err |-> "ErrTimeNotRecorded", stats |-> s, times |-> times]
  ELSE LET sorted == SortedTimes(times)
           n == Len(times)
       IN [err |-> "nil",
           stats |-> [s EXCEPT !.P50 = sorted[PercentileIdx(n, 50) + 1],
                               !.P90 = sorted[PercentileIdx(n, 90) + 1],
                               !.P99 = sorted[PercentileIdx(n, 99) + 1],
                               !.URL = url,
                               !.Mean = <<SumOver(sorted, 1..n), n>>],
           times |-> sorted]
\* Tester.SetMetrics: the error it returns, the stats it leaves and the
\* sample slice after the in-place sort.
SetMetrics(s, times, url) ==
  IF Len(times) < 1
  THEN [err |-> "ErrTimeNotRecorded", stats |-> s, times |-> times]
  ELSE LET sorted == SortedTimes(times)
           n == Len(times)
       IN [err |-> "nil",
           stats |-> [s EXCEPT !.P50 = sorted[PercentileIdx(n, 50) + 1],
                               !.P90 = sorted[PercentileIdx(n, 90) + 1],
                               !.P99 = sorted[PercentileIdx(n, 99) + 1],
                               !.URL = url,
                               !.Mean = <<SumOver(sorted, 1..n), n>>],
           times |-> sorted]

\* ---------------------------------------------------------------- Init
\* The Tester as NewTester returns it: requests >= 1 is checked there,
\* Concurrency is stored unchecked (0 is accepted), the counters are zero, no
\* sample is recorded and Work is an open unbuffered channel.
Init ==
  /\ requests \in 1..MaxRequests
  /\ Concurrency \in 0..MaxConcurrency
  /\ Graphs \in BOOLEAN
  /\ ExportStats \in BOOLEAN
  /\ stats = ZeroStats
  /\ ExecutionsTime = <<>>
  /\ wg = 0
  /\ Work = "open"
  /\ x = 0
  /\ producer = "unstarted"
  /\ spawned = 0
  /\ pc = [w \in Workers |-> "unstarted"]
  /\ tok = [w \in Workers |-> 0]
  /\ resp = [w \in Workers |-> "none"]
  /\ run = "configured"
  /\ result = "none"
  /\ produced = {}
  /\ recvOf = [k \in Tokens |-> 0]
  /\ reqOf = [k \in Tokens |-> 0]
  /\ failed = [w \in Workers |-> FALSE]
  /\ outcomes = [o \in Outcomes |-> 0]
  /\ arg = NoArg
  /\ ret = NoRet
  /\ rt = NoCallers

\* ---------------------------------------------------------------- Run, part 1
\* Run up to t.wg.Wait(): wg.Add(t.Concurrency), start the producer goroutine
\* and the goroutine that starts the workers.
RunStart ==
  /\ run = "configured"
  /\ wg' = wg + Concurrency
  /\ producer' = ProducerNext(x, requests)
  /\ run' = "wait"
  /\ UNCHANGED <<cfgVars, callVars, stats, ExecutionsTime, Work, x, spawned, workerVars,
                 result, produced, histVars>>

\* One iteration of `for x := 0; x < t.Concurrency; x++ { go func() {...}() }`.
Spawn ==
  /\ run # "configured"
  /\ spawned < Concurrency
  /\ spawned' = spawned + 1
  /\ pc' = [pc EXCEPT ![spawned + 1] = "recv"]
  /\ UNCHANGED <<cfgVars, callVars, stats, ExecutionsTime, wg, Work, x, producer, tok,
                 resp, runVars, histVars>>

\* `t.Work <- struct{}{}` meeting one worker's `range t.Work`: on an unbuffered
\* channel the send completes exactly when a receiver takes the value.
Handoff(w) ==
  /\ producer = "send"
  /\ Work = "open"
  /\ pc[w] = "recv"
  /\ x' = x + 1
  /\ producer' = ProducerNext(x + 1, requests)
  /\ pc' = [pc EXCEPT ![w] = "record"]
  /\ tok' = [tok EXCEPT ![w] = x + 1]
  /\ recvOf' = [recvOf EXCEPT ![x + 1] = @ + 1]
  /\ UNCHANGED <<cfgVars, callVars, stats, ExecutionsTime, wg, Work, spawned, resp,
                 runVars, reqOf, failed, outcomes>>

\* close(t.Work) after the producer's loop.
CloseWork ==
  /\ producer = "close"
  /\ Work' = "closed"
  /\ producer' = "done"
  /\ UNCHANGED <<cfgVars, callVars, stats, ExecutionsTime, wg, x, spawned, workerVars,
                 runVars, histVars>>

\* `for range t.Work` on the closed channel: the loop ends, DoRequest returns.
RangeEnd(w) ==
  /\ pc[w] = "recv"
  /\ Work = "closed"
  /\ pc' = [pc EXCEPT ![w] = "exit"]
  /\ UNCHANGED <<cfgVars, callVars, stats, ExecutionsTime, wg, Work, x, producer, spawned,
                 tok, resp, runVars, histVars>>

\* ---------------------------------------------------------------- DoRequest
\* t.RecordRequest() at the top of the loop body.
RecordRequest(w) ==
  /\ pc[w] = "record"
  /\ stats' = RecordRequestStats(stats)
  /\ pc' = [pc EXCEPT ![w] = "call"]
  /\ reqOf' = [reqOf EXCEPT ![tok[w]] = @ + (stats'.Requests - stats.Requests)]
  /\ UNCHANGED <<cfgVars, callVars, ExecutionsTime, wg, Work, x, producer, spawned, tok,
                 resp, runVars, recvOf, failed, outcomes>>

\* resp, err := t.client.Do(req).
ClientDo(w) ==
  /\ pc[w] = "call"
  /\ \E o \in Outcomes :
       /\ resp' = [resp EXCEPT ![w] = o]
       /\ pc' = [pc EXCEPT ![w] = AfterDo(o)]
       /\ outcomes' = [outcomes EXCEPT ![o] = @ + 1]
  /\ UNCHANGED <<cfgVars, callVars, stats, ExecutionsTime, wg, Work, x, producer, spawned,
                 tok, runVars, recvOf, reqOf, failed>>

\* t.TimeRecorder.RecordTime(elapsedTime in ms), then the status check.  The
\* elapsed time measured around t.client.Do is read here only, so it is drawn
\* here.
RecordTime(w) ==
  /\ pc[w] = "rectime"
  /\ \E elapsedTime \in Latencies :
       ExecutionsTime' = RecordTimeAppend(ExecutionsTime, elapsedTime)
  /\ pc' = [pc EXCEPT ![w] = AfterRecordTime(resp[w])]
  /\ UNCHANGED <<cfgVars, callVars, stats, wg, Work, x, producer, spawned, tok, resp,
                 runVars, histVars>>

\* t.RecordSuccess() at the end of the loop body.
RecordSuccess(w) ==
  /\ pc[w] = "recsucc"
  /\ stats' = RecordSuccessStats(stats)
  /\ pc' = [pc EXCEPT ![w] = AfterSuccess]
  \* the iteration's locals go out of scope
  /\ tok' = [tok EXCEPT ![w] = 0]
  /\ resp' = [resp EXCEPT ![w] = "none"]
  /\ UNCHANGED <<cfgVars, callVars, ExecutionsTime, wg, Work, x, producer, spawned,
                 runVars, histVars>>

\* t.RecordFailure() and the return that follows it (the log line in between
\* writes to stderr only).
RecordFailure(w) ==
  /\ pc[w] = "recfail"
  /\ stats' = RecordFailureStats(stats)
  /\ pc' = [pc EXCEPT ![w] = AfterFailure]
  /\ failed' = [failed EXCEPT ![w] = TRUE]
  \* the iteration's locals go out of scope
  /\ tok' = [tok EXCEPT ![w] = 0]
  /\ resp' = [resp EXCEPT ![w] = "none"]
  /\ UNCHANGED <<cfgVars, callVars, ExecutionsTime, wg, Work, x, producer, spawned,
                 runVars, recvOf, reqOf, outcomes>>

\* t.wg.Done() after DoRequest returned.
WgDone(w) ==
  /\ pc[w] = "exit"
  /\ wg' = wg - 1
  /\ pc' = [pc EXCEPT ![w] = "done"]
  /\ UNCHANGED <<cfgVars, callVars, stats, ExecutionsTime, Work, x, producer, spawned,
                 tok, resp, runVars, histVars>>

\* ---------------------------------------------------------------- Run, part 2
WgWaitReturnsEarly(n) == n <= 1
\* sync.WaitGroup.Wait blocks until the counter is zero.
WgWaitReturns(n) == n = 0

\* t.wg.Wait()
WgWait ==
  /\ run = "wait"
  /\ WgWaitReturns(wg)
  /\ run' = "metrics"
  /\ UNCHANGED <<cfgVars, callVars, stats, ExecutionsTime, wg, Work, x, producer, spawned,
                 workerVars, result, produced, histVars>>

\* err := t.SetMetrics(); if err != nil { return err }
RunSetMetrics ==
  /\ run = "metrics"
  /\ LET m == SetMetrics(stats, ExecutionsTime, TesterURL) IN
       /\ stats' = m.stats
       /\ ExecutionsTime' = m.times
       /\ IF m.err # "nil"
          THEN run' = "returned" /\ result' = m.err
          ELSE run' = "graphs" /\ result' = result
  /\ UNCHANGED <<cfgVars, callVars, wg, Work, x, producer, spawned, workerVars, produced,
                 histVars>>

\* if t.Graphs { Boxplot; Histogram }: each p.Save can fail, and the first
\* error is returned.
RunGraphs ==
  /\ run = "graphs"
  /\ IF Graphs
     THEN \E io \in {"ok", "boxplotErr", "histogramErr"} :
            /\ produced' = produced \cup
                 (CASE io = "ok" -> {"boxplot", "histogram"}
                    [] io = "boxplotErr" -> {}
                    [] io = "histogramErr" -> {"boxplot"})
            /\ IF io = "ok"
               THEN run' = "export" /\ result' = result
               ELSE run' = "returned" /\ result' = "ErrIO"
     ELSE run' = "export" /\ UNCHANGED <<result, produced>>
  /\ UNCHANGED <<cfgVars, callVars, stats, ExecutionsTime, wg, Work, x, producer, spawned,
                 workerVars, histVars>>

\* if t.ExportStats { os.Create; WriteStatsFile }: either can fail.
RunExport ==
  /\ run = "export"
  /\ IF ExportStats
     THEN \E io \in {"ok", "createErr", "writeErr"} :
            /\ produced' = produced \cup
                 (IF io = "createErr" THEN {} ELSE {"statsfile"})
            /\ IF io = "ok"
               THEN run' = "report" /\ result' = result
               ELSE run' = "returned" /\ result' = "ErrIO"
     ELSE run' = "report" /\ UNCHANGED <<result, produced>>
  /\ UNCHANGED <<cfgVars, callVars, stats, ExecutionsTime, wg, Work, x, producer, spawned,
                 workerVars, histVars>>

\* The three LogFStdOut lines and `return nil`.
RunReport ==
  /\ run = "report"
  /\ produced' = produced \cup {"summary"}
  /\ run' = "returned"
  /\ result' = "nil"
  /\ UNCHANGED <<cfgVars, callVars, stats, ExecutionsTime, wg, Work, x, producer, spawned,
                 workerVars, histVars>>

Next ==
  \/ RunStart
  \/ Spawn
  \/ CloseWork
  \/ \E w \in Workers : Handoff(w)
  \/ \E w \in Workers : RangeEnd(w)
  \/ \E w \in Workers : RecordRequest(w)
  \/ \E w \in Workers : ClientDo(w)
  \/ \E w \in Workers : RecordTime(w)
  \/ \E w \in Workers : RecordSuccess(w)
  \/ \E w \in Workers : RecordFailure(w)
  \/ \E w \in Workers : WgDone(w)
  \/ WgWait
  \/ RunSetMetrics
  \/ RunGraphs
  \/ RunExport
  \/ RunReport

Spec == Init /\ [][Next]_vars

\* ---------------------------------------------------------------- typing
TypeOK ==
  /\ requests \in 1..MaxRequests
  /\ Concurrency \in 0..MaxConcurrency
  /\ wg \in 0..MaxConcurrency
  /\ x \in 0..requests
  /\ Work \in {"open", "closed"}
  /\ producer \in {"unstarted", "send", "close", "done"}
  /\ \A w \in Workers :
       pc[w] \in {"unstarted", "recv", "record", "call", "rectime", "recsucc",
                  "recfail", "exit", "done"}
  /\ run \in {"configured", "wait", "metrics", "graphs", "export", "report",
              "returned"}
  /\ result \in {"none", "nil", "ErrTimeNotRecorded", "ErrIO"}
  /\ Len(ExecutionsTime) <= MaxRequests

\* ---------------------------------------------------------------- properties
Returned == run = "returned"

\* Every call made so far returned status 200.
AllCallsOK == outcomes["non200"] = 0 /\ outcomes["transportErr"] = 0

\* Workers that are between t.client.Do and the end of their iteration.
Finishing == {w \in Workers : pc[w] \in {"rectime", "recsucc", "recfail"}}

\* C1: when Run has returned, whatever the request count, the concurrency and
\* the outcomes of the calls, Requests = Successes + Failures.
C1_RequestsIsSuccessesPlusFailures ==
  Returned => stats.Requests = stats.Successes + stats.Failures

C1_Witness ==
  /\ Returned
  /\ Concurrency >= 1
  /\ \A o \in Outcomes : outcomes[o] >= 1

\* C2 as stated: when Run has returned with concurrency >= 1, Requests equals
\* the configured request count, for any mix of successes and failures.
C2_Original ==
  (Returned /\ Concurrency >= 1) => stats.Requests = requests

\* C2 amended: when Run has returned with concurrency >= 1, Requests is the
\* number of tokens handed off, at most the configured request count, and
\* equals it whenever fewer than Concurrency calls failed (a worker survived).
C2_RequestsAtMostConfigured ==
  (Returned /\ Concurrency >= 1) =>
    /\ stats.Requests = x
    /\ stats.Requests <= requests
    /\ (stats.Failures < Concurrency => stats.Requests = requests)

C2_Witness ==
  /\ Returned
  /\ stats.Failures >= 1
  /\ stats.Failures < Concurrency
  /\ requests >= 2
  /\ stats.Requests = requests

\* C3 as stated: if every call returns 200 and concurrency >= 1, Run returns
\* nil with Requests = Successes = N and Failures = 0.
C3_Original ==
  (Returned /\ Concurrency >= 1 /\ AllCallsOK) =>
    /\ result = "nil"
    /\ stats.Requests = requests
    /\ stats.Successes = requests
    /\ stats.Failures = 0

\* C3 amended: if every call returns 200 and concurrency >= 1, Run ends with
\* Requests = Successes = N and Failures = 0, and it returns nil unless
\* writing a graph or the stats file failed (so always when both are off).
C3_AllOKCountsEveryRequest ==
  (Returned /\ Concurrency >= 1 /\ AllCallsOK) =>
    /\ stats.Requests = requests
    /\ stats.Successes = requests
    /\ stats.Failures = 0
    /\ result \in {"nil", "ErrIO"}
    /\ (~Graphs /\ ~ExportStats) => result = "nil"

C3_Witness ==
  /\ Returned
  /\ AllCallsOK
  /\ result = "nil"
  /\ requests >= 2
  /\ Concurrency >= 2

\* C4: in every state the sends the producer has completed are exactly the
\* receives of the workers, every token sent so far was received exactly once
\* (so by one worker only) and no other token was, and every received token
\* has had exactly one RecordRequest once its worker is past that call (none
\* before).
C4_TokenHandedOffOnce ==
  /\ SumOver(recvOf, Tokens) = x
  /\ \A k \in Tokens : recvOf[k] = IF k <= x THEN 1 ELSE 0
  /\ \A v, w \in Workers : (v # w /\ tok[v] # 0) => tok[v] # tok[w]
  /\ \A k \in Tokens :
       reqOf[k] = IF k <= x /\ ~(\E w \in Workers : tok[w] = k /\ pc[w] = "record")
                  THEN 1 ELSE 0

C4_Witness ==
  /\ x >= 2
  /\ \E v, w \in Workers : v # w /\ tok[v] = x /\ tok[w] = x - 1 /\ pc[w] = "call"
  /\ \A k \in 1..(x - 1) : reqOf[k] = 1

\* C5: a worker that has recorded a failure has left its loop: from then on
\* it takes no step but wg.Done, so it receives no token and changes neither
\* a counter nor the sample list; a worker that has not failed leaves its
\* loop only when the channel is closed.
C5_FailedWorkerStops ==
  /\ [](\A w \in Workers :
          /\ failed[w] => pc[w] \in {"exit", "done"}
          /\ (pc[w] \in {"exit", "done"} /\ ~failed[w]) => Work = "closed")
  /\ [][\A w \in Workers :
          failed[w] =>
            /\ pc'[w] \in {"exit", "done"}
            /\ tok'[w] = tok[w]
            /\ pc'[w] # pc[w] =>
                 /\ stats' = stats
                 /\ ExecutionsTime' = ExecutionsTime
                 /\ x' = x]_vars

C5_Witness ==
  \E v, w \in Workers :
    /\ failed[v] /\ pc[v] = "done"
    /\ ~failed[w] /\ pc[w] = "done"
    /\ stats.Successes >= 2
    /\ x = requests

\* C6 as stated: 1 request, concurrency 1, the call answered non-200: Run
\* returns nil with Requests = 1, Successes = 0, Failures = 1.
C6_Original ==
  (Returned /\ requests = 1 /\ Concurrency = 1 /\ outcomes["non200"] = 1) =>
    /\ result = "nil"
    /\ stats.Requests = 1 /\ stats.Successes = 0 /\ stats.Failures = 1

\* C6 amended: 1 request, concurrency 1, the call answered non-200: Run ends
\* with Requests = 1, Successes = 0, Failures = 1; the non-200 never makes it
\* fail with ErrTimeNotRecorded, and it returns nil unless writing a graph or
\* the stats file failed (so always when both are off).
C6_NonOKCountedAsFailure ==
  (Returned /\ requests = 1 /\ Concurrency = 1 /\ outcomes["non200"] = 1) =>
    /\ stats.Requests = 1 /\ stats.Successes = 0 /\ stats.Failures = 1
    /\ result \in {"nil", "ErrIO"}
    /\ (~Graphs /\ ~ExportStats) => result = "nil"

C6_Witness ==
  /\ Returned
  /\ requests = 1 /\ Concurrency = 1 /\ outcomes["non200"] = 1
  /\ ~Graphs /\ ~ExportStats
  /\ result = "nil"
  /\ "summary" \in produced

\* C7 as stated: if no call of the run returned 200, Run returns
\* ErrTimeNotRecorded and prints no summary.
C7_Original ==
  (Returned /\ outcomes["ok200"] = 0) =>
    result = "ErrTimeNotRecorded" /\ "summary" \notin produced

\* C7 amended: if no call of the run got an HTTP response (every call ended
\* in a transport error), Run returns ErrTimeNotRecorded and prints no
\* summary.
C7_NoResponseIsError ==
  (Returned /\ outcomes["ok200"] = 0 /\ outcomes["non200"] = 0) =>
    result = "ErrTimeNotRecorded" /\ "summary" \notin produced

C7_Witness ==
  /\ Returned
  /\ outcomes["ok200"] = 0 /\ outcomes["non200"] = 0
  /\ outcomes["transportErr"] >= 2
  /\ result = "ErrTimeNotRecorded"

\* C8: with graphs and export disabled, a run in which at least one call
\* returned 200 returns nil and prints the summary, however many other calls
\* failed; the failed calls are counted in Failures.
C8_FailuresDoNotPropagate ==
  (Returned /\ ~Graphs /\ ~ExportStats /\ outcomes["ok200"] >= 1) =>
    /\ result = "nil"
    /\ "summary" \in produced
    /\ stats.Failures = outcomes["non200"] + outcomes["transportErr"]

C8_Witness ==
  /\ Returned /\ ~Graphs /\ ~ExportStats
  /\ outcomes["ok200"] = 1
  /\ outcomes["non200"] >= 1
  /\ outcomes["transportErr"] >= 1
  /\ result = "nil"

\* C9: when Run has returned with no sample recorded, it returned
\* ErrTimeNotRecorded, Mean, P50, P90, P99 and URL still have their zero
\* values, and no graph, stats file or summary was produced.
C9_NoSamplesIsErrTimeNotRecorded ==
  (Returned /\ Len(ExecutionsTime) = 0) =>
    /\ result = "ErrTimeNotRecorded"
    /\ stats.Mean = ZeroStats.Mean
    /\ stats.P50 = 0 /\ stats.P90 = 0 /\ stats.P99 = 0
    /\ stats.URL = ""
    /\ produced = {}

C9_Witness ==
  /\ Returned
  /\ Len(ExecutionsTime) = 0
  /\ Graphs /\ ExportStats
  /\ stats.Requests >= 1

\* C10 as stated: once no worker is finishing an iteration, the number of
\* samples equals Successes.
C10_Original ==
  Finishing = {} => Len(ExecutionsTime) = stats.Successes

\* C10 amended: a sample is recorded for every call that got an HTTP response,
\* 200 or not, and for no call that ended in a transport error: the samples
\* are the responses received minus the workers about to record theirs, and
\* once no worker is finishing an iteration their number is Successes plus
\* the non-200 responses.
C10_SamplePerResponse ==
  /\ Len(ExecutionsTime) + Cardinality({w \in Workers : pc[w] = "rectime"})
       = outcomes["ok200"] + outcomes["non200"]
  /\ Finishing = {} =>
       /\ Len(ExecutionsTime) = stats.Successes + outcomes["non200"]
       /\ stats.Failures = outcomes["non200"] + outcomes["transportErr"]

C10_Witness ==
  /\ Finishing = {}
  /\ outcomes["ok200"] >= 1
  /\ outcomes["non200"] >= 1
  /\ outcomes["transportErr"] >= 1
  /\ Len(ExecutionsTime) = stats.Successes + 1

\* ================================================================ SetMetrics
\* Tester.SetMetrics called directly on a Tester that was never run, after
\* direct TimeRecorder.RecordTime calls, as the unit tests do.
MaxSamples == 7

DefaultConcurrency == 1
DefaultNumRequests == 1

\* The samples of TestTimeRecorderCalledMultipleTimesSetCorrectPercentiles...,
\* in the order of the test and in two other recording orders.
ExampleOrders ==
  { <<5, 6, 7, 8, 10, 11, 13>>,
    <<13, 11, 10, 8, 7, 6, 5>>,
    <<10, 5, 13, 7, 6, 11, 8>> }

\* What the direct RecordTime calls record: three of the test's samples.
SampleValues == {5, 8, 13}

\* Everything of the Tester that only Run and DoRequest touch.
poolVars == <<cfgVars, wg, Work, x, producer, spawned, workerVars, runVars,
              histVars>>

\* NewTester(WithURL("http://fake.url")): the defaults, nothing started.
FreshTester ==
  /\ requests = DefaultNumRequests
  /\ Concurrency = DefaultConcurrency
  /\ Graphs = FALSE
  /\ ExportStats = FALSE
  /\ wg = 0
  /\ Work = "open"
  /\ x = 0
  /\ producer = "unstarted"
  /\ spawned = 0
  /\ pc = [w \in Workers |-> "unstarted"]
  /\ tok = [w \in Workers |-> 0]
  /\ resp = [w \in Workers |-> "none"]
  /\ run = "configured"
  /\ result = "none"
  /\ produced = {}
  /\ recvOf = [k \in Tokens |-> 0]
  /\ reqOf = [k \in Tokens |-> 0]
  /\ failed = [w \in Workers |-> FALSE]
  /\ outcomes = [o \in Outcomes |-> 0]

InitMetrics ==
  /\ FreshTester
  /\ stats = ZeroStats
  /\ ExecutionsTime \in {<<>>} \cup ExampleOrders
  /\ arg = [fn |-> "SetMetrics"]
  /\ ret = NoRet
  /\ rt = NoCallers

\* tester.TimeRecorder.RecordTime(v) from the test.
TestRecordTime ==
  /\ ret = NoRet
  /\ Len(ExecutionsTime) < MaxSamples
  /\ \E v \in SampleValues :
       ExecutionsTime' = RecordTimeAppend(ExecutionsTime, v)
  /\ UNCHANGED <<poolVars, stats, callVars>>

\* err = tester.SetMetrics() from the test.
TestSetMetrics ==
  /\ ret = NoRet
  /\ LET m == SetMetrics(stats, ExecutionsTime, TesterURL) IN
       /\ stats' = m.stats
       /\ ExecutionsTime' = m.times
       /\ ret' = [fn |-> "SetMetrics", err |-> m.err]
  /\ UNCHANGED <<poolVars, arg, rt>>

NextMetrics == TestRecordTime \/ TestSetMetrics

SpecMetrics == InitMetrics /\ [][NextMetrics]_vars

\* round(n * pct / 100), halves away from zero, for n >= 0: the integer r
\* with r - 1/2 <= n * pct / 100 < r + 1/2.
RoundedRank(n, pct) ==
  CHOOSE r \in 0..(n + 1) : 100 * r - 50 <= n * pct /\ n * pct < 100 * r + 50

\* v is the element at 0-based index i of the samples sorted ascending.
IsAtSortedIndex(times, i, v) ==
  /\ \E k \in DOMAIN times : times[k] = v
  /\ Cardinality({k \in DOMAIN times : times[k] < v}) <= i
  /\ i < Cardinality({k \in DOMAIN times : times[k] <= v})

\* C11: a SetMetrics call on n >= 1 samples, recorded in any order, sets P50,
\* P90 and P99 to the element at 0-based index round(n*p)-1 of the samples
\* sorted ascending, p = 0.50, 0.90, 0.99, and that index is within 0..n-1;
\* the samples 5,6,7,8,10,11,13 give P50 = 8, P90 = 11, P99 = 13.
C11_NearestRankPercentiles ==
  [][(ret = NoRet /\ ret' # NoRet /\ Len(ExecutionsTime) >= 1) =>
       LET n == Len(ExecutionsTime)
           i50 == RoundedRank(n, 50) - 1
           i90 == RoundedRank(n, 90) - 1
           i99 == RoundedRank(n, 99) - 1
       IN /\ ret'.err = "nil"
          /\ {i50, i90, i99} \subseteq 0..(n - 1)
          /\ IsAtSortedIndex(ExecutionsTime, i50, stats'.P50)
          /\ IsAtSortedIndex(ExecutionsTime, i90, stats'.P90)
          /\ IsAtSortedIndex(ExecutionsTime, i99, stats'.P99)
          /\ ExecutionsTime \in ExampleOrders =>
               stats'.P50 = 8 /\ stats'.P90 = 11 /\ stats'.P99 = 13]_vars

C11_Witness ==
  /\ ret = [fn |-> "SetMetrics", err |-> "nil"]
  /\ Len(ExecutionsTime) = 7
  /\ stats.P50 = 8 /\ stats.P90 = 11 /\ stats.P99 = 13

\* ================================================================ stats codec
\* Text is a sequence of one-character strings.  A float64 field of a Stats
\* record that goes through the codec or CompareStats is represented by the
\* integer 10000 * value, so that a value can have more than the three
\* decimals that "%.3f" keeps; a URL is its sequence of characters.
MaxLines == 2

Comma == ","
Newline == "\n"
DigitChars == <<"0", "1", "2", "3", "4", "5", "6", "7", "8", "9">>
DigitChar(d) == DigitChars[d + 1]
DigitValue(c) == CHOOSE d \in 0..9 : DigitChars[d + 1] = c
IsDigits(f) == f # <<>> /\ \A i \in DOMAIN f : \E d \in 0..9 : DigitChars[d + 1] = f[i]

RECURSIVE FormatNat(_)
FormatNat(n) ==
  IF n < 10 THEN <<DigitChar(n)>>
  ELSE FormatNat(n \div 10) \o <<DigitChar(n % 10)>>

\* fmt verb %d
FormatInt(n) == IF n < 0 THEN <<"-">> \o FormatNat(-n) ELSE FormatNat(n)

FormatFloat2(v) ==
  LET m == IF v >= 0 THEN (v + 50) \div 100 ELSE -((50 - v) \div 100)
      a == IF m < 0 THEN -m ELSE m
  IN (IF m < 0 THEN <<"-">> ELSE <<>>) \o FormatNat(a \div 100) \o <<".">>
       \o <<DigitChar((a \div 10) % 10), DigitChar(a % 10)>>
\* fmt verb %.3f: the value rounded to thousandths, three decimals always.
\* (No input here lies halfway between two thousandths or rounds to -0.)
FormatFloat3(v) ==
  LET m == IF v >= 0 THEN (v + 5) \div 10 ELSE -((5 - v) \div 10)
      a == IF m < 0 THEN -m ELSE m
  IN (IF m < 0 THEN <<"-">> ELSE <<>>) \o FormatNat(a \div 1000) \o <<".">>
       \o <<DigitChar((a \div 100) % 10), DigitChar((a \div 10) % 10),
            DigitChar(a % 10)>>

RECURSIVE DigitsValue(_)
DigitsValue(f) ==
  IF f = <<>> THEN 0
  ELSE 10 * DigitsValue(SubSeq(f, 1, Len(f) - 1)) + DigitValue(f[Len(f)])

Unsigned(f) == IF f # <<>> /\ f[1] \in {"+", "-"} THEN Tail(f) ELSE f
Sign(f) == IF f # <<>> /\ f[1] = "-" THEN -1 ELSE 1

\* strconv.Atoi: an optional sign and at least one decimal digit.
Atoi(f) ==
  IF IsDigits(Unsigned(f))
  THEN [ok |-> TRUE, val |-> Sign(f) * DigitsValue(Unsigned(f))]
  ELSE [ok |-> FALSE, val |-> 0]

FirstIndex(f, c) ==
  IF \E i \in DOMAIN f : f[i] = c
  THEN CHOOSE i \in DOMAIN f : f[i] = c /\ \A j \in 1..(i - 1) : f[j] # c
  ELSE 0

\* The first four decimals of a fraction, as ten-thousandths.
FractionValue(f) ==
  DigitsValue(SubSeq(f \o <<"0", "0", "0", "0">>, 1, 4))

\* strconv.ParseFloat(f, 64) on the decimal forms: an optional sign, digits,
\* and optionally a point and digits, with digits on at least one side of the
\* point.  (Exponents, hex floats, inf and nan need letters that no input
\* here contains.)
ParseFloat(f) ==
  LET u == Unsigned(f)
      dot == FirstIndex(u, ".")
      ip == IF dot = 0 THEN u ELSE SubSeq(u, 1, dot - 1)
      fp == IF dot = 0 THEN <<>> ELSE SubSeq(u, dot + 1, Len(u))
      digitsOrEmpty(g) == g = <<>> \/ IsDigits(g)
  IN IF digitsOrEmpty(ip) /\ digitsOrEmpty(fp) /\ (ip # <<>> \/ fp # <<>>)
     THEN [ok |-> TRUE,
           val |-> Sign(f) * (10000 * DigitsValue(ip) + FractionValue(fp))]
     ELSE [ok |-> FALSE, val |-> 0]

\* strings.Split(s, sep) for a one-character separator.
RECURSIVE Split(_, _)
Split(f, sep) ==
  LET i == FirstIndex(f, sep) IN
    IF i = 0 THEN <<f>>
    ELSE <<SubSeq(f, 1, i - 1)>> \o Split(SubSeq(f, i + 1, Len(f)), sep)

\* bufio.Scanner with the default ScanLines: one token per line, the line
\* terminator dropped, a last line without terminator returned if non-empty.
RECURSIVE ScanLines(_)
ScanLines(text) ==
  LET i == FirstIndex(text, Newline) IN
    IF text = <<>> THEN <<>>
    ELSE IF i = 0 THEN <<text>>
    ELSE <<SubSeq(text, 1, i - 1)>> \o ScanLines(SubSeq(text, i + 1, Len(text)))

WriteFieldsSwapped(st) ==
  <<st.URL, FormatInt(st.Requests), FormatInt(st.Failures),
    FormatInt(st.Successes), FormatFloat3(st.P50), FormatFloat3(st.P90),
    FormatFloat3(st.P99)>>
WriteFieldsTwoDecimals(st) ==
  <<st.URL, FormatInt(st.Requests), FormatInt(st.Successes),
    FormatInt(st.Failures), FormatFloat2(st.P50), FormatFloat2(st.P90),
    FormatFloat2(st.P99)>>
\* The arguments of the Fprintf in WriteStatsFile, each under its verb.
WriteFields(st) ==
  <<st.URL, FormatInt(st.Requests), FormatInt(st.Successes),
    FormatInt(st.Failures), FormatFloat3(st.P50), FormatFloat3(st.P90),
    FormatFloat3(st.P99)>>

RECURSIVE JoinFields(_)
JoinFields(fs) ==
  IF Len(fs) = 1 THEN fs[1]
  ELSE fs[1] \o <<Comma>> \o JoinFields(Tail(fs))

\* WriteStatsFile(w, stats): what it returns and what it wrote to w.
WriteStatsFile(wOK, st) ==
  IF wOK THEN [fn |-> "WriteStatsFile", err |-> "nil",
               text |-> JoinFields(WriteFields(st))]
  ELSE [fn |-> "WriteStatsFile", err |-> "ErrIO", text |-> <<>>]

\* The loop body of ReadStatsFile from field k on: pos[k] panics when the
\* line has fewer than k fields, a field that does not parse returns the
\* error, and after field 7 the record is appended.
RECURSIVE LineOutcome(_, _)
LineOutcome(pos, k) ==
  IF k > 7 THEN "ok"
  ELSE IF Len(pos) < k THEN "panic"
  ELSE IF k <= 4 /\ ~Atoi(pos[k]).ok THEN "err"
  ELSE IF k >= 5 /\ ~ParseFloat(pos[k]).ok THEN "err"
  ELSE LineOutcome(pos, k + 1)

\* The Stats literal that ReadStatsFile appends for a line (Mean is not set).
LineStats(pos) ==
  [URL |-> pos[1], Mean |-> ZeroStats.Mean,
   P50 |-> ParseFloat(pos[5]).val, P90 |-> ParseFloat(pos[6]).val,
   P99 |-> ParseFloat(pos[7]).val, Failures |-> Atoi(pos[4]).val,
   Requests |-> Atoi(pos[2]).val, Successes |-> Atoi(pos[3]).val]

RECURSIVE ReadLines(_, _)
ReadLines(lines, acc) ==
  IF lines = <<>> THEN [outcome |-> "ok", stats |-> acc]
  ELSE LET pos == Split(Head(lines), Comma)
           o == LineOutcome(pos, 2)
       IN IF o # "ok" THEN [outcome |-> o, stats |-> <<>>]
          ELSE ReadLines(Tail(lines), Append(acc, LineStats(pos)))

\* ReadStatsFile(r): outcome "ok" (nil error), "err" (nil slice and an error)
\* or "panic" (index out of range).
ReadStatsFile(text) ==
  LET r == ReadLines(ScanLines(text), <<>>) IN
    [fn |-> "ReadStatsFile", outcome |-> r.outcome, stats |-> r.stats]

\* ---------------------------------------------------------------- compare
ZeroDelta ==
  [P50 |-> 0, P90 |-> 0, P99 |-> 0, Requests |-> 0, Failures |-> 0,
   Successes |-> 0]

CompareStatsReversed(stats1, stats2) ==
  [P50 |-> stats1.P50 - stats2.P50, P90 |-> stats1.P90 - stats2.P90,
   P99 |-> stats1.P99 - stats2.P99,
   Requests |-> stats1.Requests - stats2.Requests,
   Failures |-> stats1.Failures - stats2.Failures,
   Successes |-> stats1.Successes - stats2.Successes]
\* CompareStats(stats1, stats2)
CompareStats(stats1, stats2) ==
  [P50 |-> stats2.P50 - stats1.P50, P90 |-> stats2.P90 - stats1.P90,
   P99 |-> stats2.P99 - stats1.P99,
   Requests |-> stats2.Requests - stats1.Requests,
   Failures |-> stats2.Failures - stats1.Failures,
   Successes |-> stats2.Successes - stats1.Successes]

\* A path of the file system: whether os.Open succeeds, and the content.
NoFile == [exists |-> FALSE, text |-> <<>>]
File(text) == [exists |-> TRUE, text |-> text]

\* CompareStatsFiles(path1, path2): os.Open(path1), ReadStatsFile(f1) with
\* its result dropped, os.Open(path1) a second time, and the zero delta.
CompareStatsFiles(fs, path1, path2) ==
  IF ~fs[path1].exists
  THEN [fn |-> "CompareStatsFiles", outcome |-> "err", delta |-> ZeroDelta]
  ELSE IF ReadStatsFile(fs[path1].text).outcome = "panic"
  THEN [fn |-> "CompareStatsFiles", outcome |-> "panic", delta |-> ZeroDelta]
  ELSE IF ~fs[path1].exists
  THEN [fn |-> "CompareStatsFiles", outcome |-> "err", delta |-> ZeroDelta]
  ELSE [fn |-> "CompareStatsFiles", outcome |-> "ok", delta |-> ZeroDelta]

\* ---------------------------------------------------------------- codec calls
\* Direct calls of WriteStatsFile and ReadStatsFile, as the tests make them on
\* a bytes.Buffer and a strings.Reader; the Tester is not involved.
U == <<"u">>
URLValues == {<<>>, U, U \o <<Comma>> \o U}

\* Stats records: the values of the tests (100.123, 150.000, 198.465 and the
\* counts 20, 19, 1), and for each field a second value; 1.2346, 1.5 and -0.5
\* among the percentiles, a non-zero Mean, a URL with a comma.
StatsValues ==
  [URL : URLValues, Mean : {<<0, 1>>, <<250, 2>>},
   P50 : {1001230, 12346}, P90 : {1500000, 15000}, P99 : {1984650, -5000},
   Failures : {1, 12}, Requests : {20, 7}, Successes : {19, 0}]

FakeStats ==
  [URL |-> U, Mean |-> <<0, 1>>, P50 |-> 1001230, P90 |-> 1500000,
   P99 |-> 1984650, Failures |-> 1, Requests |-> 20, Successes |-> 19]
OtherStats ==
  [URL |-> <<>>, Mean |-> <<0, 1>>, P50 |-> 50000, P90 |-> 330000,
   P99 |-> -5000, Failures |-> 12, Requests |-> 7, Successes |-> 0]

\* Lines that ReadStatsFile accepts: two written records and one with an
\* eighth field.
WellFormedLines ==
  {JoinFields(WriteFields(FakeStats)), JoinFields(WriteFields(OtherStats)),
   JoinFields(WriteFields(FakeStats) \o <<FormatInt(9)>>)}

\* Lines with a field missing or not a number.
MalformedLines ==
  {<<>>,
   U,
   JoinFields(<<U, FormatInt(20)>>),
   JoinFields(<<U, U>>),
   JoinFields(SubSeq(WriteFields(FakeStats), 1, 6)),
   JoinFields([WriteFields(FakeStats) EXCEPT ![3] = U]),
   JoinFields([WriteFields(FakeStats) EXCEPT ![6] = <<".">>])}

SampleLines == WellFormedLines \cup MalformedLines

LineSeqs == UNION {[1..n -> SampleLines] : n \in 0..MaxLines}

\* The content of a reader: the lines, each but possibly the last terminated.
RECURSIVE Text(_, _)
Text(lines, terminated) ==
  IF lines = <<>> THEN <<>>
  ELSE IF Len(lines) = 1 /\ ~terminated THEN lines[1]
  ELSE lines[1] \o <<Newline>> \o Text(Tail(lines), terminated)

CodecInputs ==
  {[fn |-> "WriteStatsFile", wOK |-> ok, stats |-> st] :
     ok \in BOOLEAN, st \in StatsValues}
  \cup {[fn |-> "ReadStatsFile", lines |-> ls, terminated |-> tm] :
          ls \in LineSeqs, tm \in BOOLEAN}

InitCodec ==
  /\ FreshTester
  /\ stats = ZeroStats
  /\ ExecutionsTime = <<>>
  /\ arg \in CodecInputs
  /\ ret = NoRet
  /\ rt = NoCallers

\* err := bench.WriteStatsFile(output, stats)
CallWriteStatsFile ==
  /\ arg.fn = "WriteStatsFile"
  /\ ret = NoRet
  /\ ret' = WriteStatsFile(arg.wOK, arg.stats)
  /\ UNCHANGED <<poolVars, stats, ExecutionsTime, arg, rt>>

\* got, err := bench.ReadStatsFile(r) on what WriteStatsFile wrote.
CallReadBack ==
  /\ ret.fn = "WriteStatsFile"
  /\ ret.err = "nil"
  /\ ret' = [ReadStatsFile(ret.text) EXCEPT !.fn = "ReadBack"]
  /\ UNCHANGED <<poolVars, stats, ExecutionsTime, arg, rt>>

\* got, err := bench.ReadStatsFile(strings.NewReader(text))
CallReadStatsFile ==
  /\ arg.fn = "ReadStatsFile"
  /\ ret = NoRet
  /\ ret' = ReadStatsFile(Text(arg.lines, arg.terminated))
  /\ UNCHANGED <<poolVars, stats, ExecutionsTime, arg, rt>>

NextCodec == CallWriteStatsFile \/ CallReadBack \/ CallReadStatsFile

SpecCodec == InitCodec /\ [][NextCodec]_vars

\* ---------------------------------------------------------------- C12
\* The lines the scanner is given: an unterminated empty last line is no line.
GivenLines(a) ==
  IF a.lines # <<>> /\ ~a.terminated /\ a.lines[Len(a.lines)] = <<>>
  THEN SubSeq(a.lines, 1, Len(a.lines) - 1)
  ELSE a.lines

ThreeDecimals(v) == v % 10 = 0
PlainURL(u) == \A i \in DOMAIN u : u[i] \notin {Comma, Newline}

\* C12 as stated: reading back what WriteStatsFile wrote for any Stats record
\* returns exactly that one record, every field equal.
C12_Original ==
  ret.fn = "ReadBack" => ret.outcome = "ok" /\ ret.stats = <<arg.stats>>

\* C12: reading back what WriteStatsFile wrote returns exactly the one record
\* written, every field equal, when the record's Mean is zero, its P50, P90
\* and P99 have no more than three decimals and its URL contains no comma and
\* no newline.
C12_RoundTripOfWrittenFields ==
  (/\ ret.fn = "ReadBack"
   /\ arg.stats.Mean = <<0, 1>>
   /\ ThreeDecimals(arg.stats.P50)
   /\ ThreeDecimals(arg.stats.P90)
   /\ ThreeDecimals(arg.stats.P99)
   /\ PlainURL(arg.stats.URL))
    => ret.outcome = "ok" /\ ret.stats = <<arg.stats>>

C12_Witness ==
  /\ ret.fn = "ReadBack"
  /\ arg.stats = FakeStats
  /\ ret.stats = <<FakeStats>>

\* ---------------------------------------------------------------- C13
\* C13: WriteStatsFile emits one record: url, requests, successes, failures,
\* p50, p90, p99 in this order, separated by commas, the percentiles with
\* three decimals; ReadStatsFile returns one record per line, in line order,
\* whose fields are the line's fields in the same order.
C13_FieldOrder ==
  /\ (ret.fn = "WriteStatsFile" /\ ret.err = "nil") =>
       LET st == arg.stats IN
         /\ ret.text = st.URL \o <<Comma>> \o FormatInt(st.Requests)
              \o <<Comma>> \o FormatInt(st.Successes)
              \o <<Comma>> \o FormatInt(st.Failures)
              \o <<Comma>> \o FormatFloat3(st.P50)
              \o <<Comma>> \o FormatFloat3(st.P90)
              \o <<Comma>> \o FormatFloat3(st.P99)
         /\ Newline \notin {ret.text[i] : i \in DOMAIN ret.text}
         /\ st = [FakeStats EXCEPT !.Successes = 18, !.Failures = 2] =>
              ret.text = <<"u", ",", "2", "0", ",", "1", "8", ",", "2", ",",
                           "1", "0", "0", ".", "1", "2", "3", ",",
                           "1", "5", "0", ".", "0", "0", "0", ",",
                           "1", "9", "8", ".", "4", "6", "5">>
  /\ (ret.fn = "ReadStatsFile" /\ ret.outcome = "ok") =>
       LET lines == GivenLines(arg) IN
         /\ Len(ret.stats) = Len(lines)
         /\ \A k \in DOMAIN lines :
              LET pos == Split(lines[k], Comma)
                  st == ret.stats[k]
              IN /\ st.URL = pos[1]
                 /\ FormatInt(st.Requests) = pos[2]
                 /\ FormatInt(st.Successes) = pos[3]
                 /\ FormatInt(st.Failures) = pos[4]
                 /\ FormatFloat3(st.P50) = pos[5]
                 /\ FormatFloat3(st.P90) = pos[6]
                 /\ FormatFloat3(st.P99) = pos[7]

C13_Witness ==
  /\ ret.fn = "ReadStatsFile"
  /\ ret.outcome = "ok"
  /\ ret.stats = <<OtherStats, FakeStats>>

\* ---------------------------------------------------------------- C14
IsMalformed(line) ==
  LET pos == Split(line, Comma) IN
    \/ Len(pos) < 7
    \/ \E k \in 2..4 : ~Atoi(pos[k]).ok
    \/ \E k \in 5..7 : ~ParseFloat(pos[k]).ok

\* C14 as stated: for an input with a malformed line (fewer than seven
\* fields, an empty line, a count or percentile that is not a number)
\* ReadStatsFile returns an error and no records, and does not crash.
C14_MalformedLineIsError ==
  (ret.fn = "ReadStatsFile" /\ \E k \in DOMAIN GivenLines(arg) :
                                  IsMalformed(GivenLines(arg)[k]))
    => ret.outcome = "err" /\ ret.stats = <<>>

\* ---------------------------------------------------------------- compare calls
\* Direct calls of CompareStats and CompareStatsFiles.
\* stats1 and stats2 of TestCompareStatsReturnsCorrectStatsDelta.
TestStats1 ==
  [URL |-> <<>>, Mean |-> <<0, 1>>, P50 |-> 200000, P90 |-> 300000,
   P99 |-> 1000000, Failures |-> 2, Requests |-> 20, Successes |-> 18]
TestStats2 ==
  [URL |-> <<>>, Mean |-> <<0, 1>>, P50 |-> 50000, P90 |-> 330000,
   P99 |-> 990000, Failures |-> 1, Requests |-> 40, Successes |-> 19]

CompareValues ==
  {st \in StatsValues : PlainURL(st.URL) /\ st.P90 = 1500000}
  \cup {TestStats1, TestStats2}

Paths == {"stats1.txt", "stats2.txt"}

\* What a path can hold: nothing that can be opened, or one line of text.
FileValues ==
  {NoFile}
  \cup {File(l) : l \in SampleLines}
  \cup {File(WriteStatsFile(TRUE, st).text) : st \in {TestStats1, TestStats2}}

CompareInputs ==
  {[fn |-> "CompareStats", stats1 |-> s1, stats2 |-> s2] :
     s1 \in CompareValues, s2 \in CompareValues}
  \cup {[fn |-> "CompareStatsFiles", fs |-> f, path1 |-> p1, path2 |-> p2] :
          f \in [Paths -> FileValues], p1 \in Paths, p2 \in Paths}

InitCompare ==
  /\ FreshTester
  /\ stats = ZeroStats
  /\ ExecutionsTime = <<>>
  /\ arg \in CompareInputs
  /\ ret = NoRet
  /\ rt = NoCallers

\* got := bench.CompareStats(stats1, stats2)
CallCompareStats ==
  /\ arg.fn = "CompareStats"
  /\ ret = NoRet
  /\ ret' = [fn |-> "CompareStats",
             delta |-> CompareStats(arg.stats1, arg.stats2)]
  /\ UNCHANGED <<poolVars, stats, ExecutionsTime, arg, rt>>

\* got, err := bench.CompareStatsFiles(f1, f2)
CallCompareStatsFiles ==
  /\ arg.fn = "CompareStatsFiles"
  /\ ret = NoRet
  /\ ret' = CompareStatsFiles(arg.fs, arg.path1, arg.path2)
  /\ UNCHANGED <<poolVars, stats, ExecutionsTime, arg, rt>>

NextCompare == CallCompareStats \/ CallCompareStatsFiles

SpecCompare == InitCompare /\ [][NextCompare]_vars

\* ---------------------------------------------------------------- C15
\* C15: CompareStats(stats1, stats2) returns the delta whose P50, P90, P99,
\* Requests, Successes and Failures are stats2's field minus stats1's field;
\* the delta has no other field, so URL and Mean do not influence it.
C15_DeltaIsSecondMinusFirst ==
  ret.fn = "CompareStats" =>
    /\ DOMAIN ret.delta =
         {"P50", "P90", "P99", "Requests", "Successes", "Failures"}
    /\ \A fld \in DOMAIN ret.delta :
         ret.delta[fld] = arg.stats2[fld] - arg.stats1[fld]
    /\ (arg.stats1 = TestStats1 /\ arg.stats2 = TestStats2) =>
         ret.delta = [P50 |-> -150000, P90 |-> 30000, P99 |-> -10000,
                      Requests |-> 20, Successes |-> 1, Failures |-> -1]

C15_Witness ==
  /\ ret.fn = "CompareStats"
  /\ arg.stats1 = TestStats1
  /\ arg.stats2 = TestStats2
  /\ ret.delta.P50 = -150000
  /\ ret.delta.Requests = 20

\* ---------------------------------------------------------------- C16
HoldsOneRecord(file) ==
  /\ file.exists
  /\ ReadStatsFile(file.text).outcome = "ok"
  /\ Len(ReadStatsFile(file.text).stats) = 1

RecordIn(file) == ReadStatsFile(file.text).stats[1]

\* C16 as stated: for two files that each hold one stats record,
\* CompareStatsFiles(path1, path2) returns without error the delta that
\* CompareStats gives on the two records, second file minus first file.
C16_DeltaOfTheTwoFiles ==
  (/\ ret.fn = "CompareStatsFiles"
   /\ HoldsOneRecord(arg.fs[arg.path1])
   /\ HoldsOneRecord(arg.fs[arg.path2]))
    => /\ ret.outcome = "ok"
       /\ ret.delta = CompareStats(RecordIn(arg.fs[arg.path1]),
                                   RecordIn(arg.fs[arg.path2]))

\* ---------------------------------------------------------------- C17
\* C17 as stated: CompareStatsFiles returns a non-nil error whenever the
\* first file, the second file or both cannot be opened.
C17_UnreadableFileIsError ==
  (/\ ret.fn = "CompareStatsFiles"
   /\ (~arg.fs[arg.path1].exists \/ ~arg.fs[arg.path2].exists))
    => ret.outcome = "err"

\* ================================================================ NewTester
MaxOpts == 3

\* The Tester literal of NewTester, before the options: the fields the checks
\* and Run read.  Work is nil until the last statement.
DefaultTester ==
  [URL |-> "", requests |-> DefaultNumRequests,
   Concurrency |-> DefaultConcurrency, stdout |-> "os.Stdout",
   stderr |-> "os.Stderr", Graphs |-> FALSE, ExportStats |-> FALSE,
   Work |-> "nil"]

NoTester == [nil |-> TRUE]

\* url.Parse on the URLs used here: whether it fails, and u.Host otherwise.
\* "bogus-no-scheme-or-domain" and "bogus-no-host://" parse with an empty
\* host; "http://[::1" does not parse (missing ']' in host).
UnparsableURLs == {"http://[::1"}
HostOf(u) == IF u = TesterURL THEN "fake.url" ELSE ""
TesterURLs ==
  {"", TesterURL, "bogus-no-scheme-or-domain", "bogus-no-host://",
   "http://[::1"}

Writers == {"nil", "io.Discard"}

\* An option and its argument: s for a string or writer, n for an int.
Options ==
  {[opt |-> "WithURL", s |-> u, n |-> 0] : u \in TesterURLs}
  \cup {[opt |-> "WithRequests", s |-> "", n |-> k] : k \in {-1, 0, 1, 2}}
  \cup {[opt |-> "WithConcurrency", s |-> "", n |-> c] : c \in {0}}
  \cup {[opt |-> "WithStdout", s |-> w, n |-> 0] : w \in Writers}
  \cup {[opt |-> "WithStderr", s |-> w, n |-> 0] : w \in Writers}

\* One option applied to the Tester: the error it returns and the Tester.
ApplyOption(t, o) ==
  CASE o.opt = "WithURL" -> [err |-> "nil", t |-> [t EXCEPT !.URL = o.s]]
    [] o.opt = "WithRequests" ->
         [err |-> "nil", t |-> [t EXCEPT !.requests = o.n]]
    [] o.opt = "WithConcurrency" ->
         [err |-> "nil", t |-> [t EXCEPT !.Concurrency = o.n]]
    [] o.opt = "WithGraphs" ->
         [err |-> "nil", t |-> [t EXCEPT !.Graphs = o.b]]
    [] o.opt = "WithExportStats" ->
         [err |-> "nil", t |-> [t EXCEPT !.ExportStats = o.b]]
    [] o.opt = "WithStdout" ->
         IF o.s = "nil" THEN [err |-> "ErrValueCannotBeNil", t |-> t]
         ELSE [err |-> "nil", t |-> [t EXCEPT !.stdout = o.s]]
    [] o.opt = "WithStderr" ->
         IF o.s = "nil" THEN [err |-> "ErrValueCannotBeNil", t |-> t]
         ELSE [err |-> "nil", t |-> [t EXCEPT !.stderr = o.s]]

\* for _, o := range opts: the first option error ends the loop.
RECURSIVE ApplyOptions(_, _)
ApplyOptions(t, opts) ==
  IF opts = <<>> THEN [err |-> "nil", t |-> t]
  ELSE LET r == ApplyOption(t, Head(opts)) IN
         IF r.err # "nil" THEN r ELSE ApplyOptions(r.t, Tail(opts))

ValidateConcurrencyToo(t) ==
  IF t.URL = "" THEN "ErrNoURL"
  ELSE IF t.URL \in UnparsableURLs THEN "ErrURLParse"
  ELSE IF HostOf(t.URL) = "" THEN "ErrInvalidURL"
  ELSE IF t.requests < 1 THEN "ErrInvalidRequests"
  ELSE IF t.Concurrency < 1 THEN "ErrInvalidConcurrency"
  ELSE "nil"
ValidateRequestsFirst(t) ==
  IF t.requests < 1 THEN "ErrInvalidRequests"
  ELSE IF t.URL = "" THEN "ErrNoURL"
  ELSE IF t.URL \in UnparsableURLs THEN "ErrURLParse"
  ELSE IF HostOf(t.URL) = "" THEN "ErrInvalidURL"
  ELSE "nil"
ValidateNoHostCheck(t) ==
  IF t.URL = "" THEN "ErrNoURL"
  ELSE IF t.URL \in UnparsableURLs THEN "ErrURLParse"
  ELSE IF t.requests < 1 THEN "ErrInvalidRequests"
  ELSE "nil"
\* The checks of NewTester after the options, in the order of the code.
Validate(t) ==
  IF t.URL = "" THEN "ErrNoURL"
  ELSE IF t.URL \in UnparsableURLs THEN "ErrURLParse"
  ELSE IF HostOf(t.URL) = "" THEN "ErrInvalidURL"
  ELSE IF t.requests < 1 THEN "ErrInvalidRequests"
  ELSE "nil"

\* NewTester(opts...): the error, and the Tester (nil with an error).
NewTester(opts) ==
  LET r == ApplyOptions(DefaultTester, opts) IN
    IF r.err # "nil"
    THEN [fn |-> "NewTester", err |-> r.err, tester |-> NoTester]
    ELSE IF Validate(r.t) # "nil"
    THEN [fn |-> "NewTester", err |-> Validate(r.t), tester |-> NoTester]
    ELSE [fn |-> "NewTester", err |-> "nil",
          tester |-> [r.t EXCEPT !.Work = "open"]]

OptionSeqs == UNION {[1..n -> Options] : n \in 0..MaxOpts}

\* Before NewTester is called no Tester exists: nothing of the pool moves.
InitNewTester ==
  /\ FreshTester
  /\ stats = ZeroStats
  /\ ExecutionsTime = <<>>
  /\ arg \in {[fn |-> "NewTester", opts |-> os] : os \in OptionSeqs}
  /\ ret = NoRet
  /\ rt = NoCallers

\* tester, err := bench.NewTester(opts...)
CallNewTester ==
  /\ arg.fn = "NewTester"
  /\ ret = NoRet
  /\ ret' = NewTester(arg.opts)
  /\ UNCHANGED <<poolVars, stats, ExecutionsTime, arg, rt>>

NextNewTester == CallNewTester

SpecNewTester == InitNewTester /\ [][NextNewTester]_vars

\* ---------------------------------------------------------------- C18
\* The value the options give a field: that of the last option setting it.
LastOf(opts, name, default) ==
  LET idx == {i \in DOMAIN opts : opts[i].opt = name} IN
    IF idx = {} THEN default
    ELSE opts[CHOOSE i \in idx : \A j \in idx : j <= i]

NilWriterGiven(opts) ==
  \E i \in DOMAIN opts :
    opts[i].opt \in {"WithStdout", "WithStderr"} /\ opts[i].s = "nil"

GivenURL(opts) == LastOf(opts, "WithURL", [s |-> ""]).s
GivenRequests(opts) ==
  LastOf(opts, "WithRequests", [n |-> DefaultNumRequests]).n
URLMissing(opts) == GivenURL(opts) = ""
URLInvalid(opts) ==
  GivenURL(opts) \in
    {"bogus-no-scheme-or-domain", "bogus-no-host://", "http://[::1"}
RequestsInvalid(opts) == GivenRequests(opts) < 1

\* C18: NewTester returns an error and no Tester when the URL is empty
\* (ErrNoURL unless a writer is nil), when the URL has an empty host or does
\* not parse, when the request count is < 1, or when a nil stdout or stderr
\* writer is given (ErrValueCannotBeNil); only a configuration passing all
\* checks yields a Tester, which then has an open Work channel and the given
\* URL and request count; a rejected call leaves no worker, token or counter.
C18_InvalidConfigurationIsRejected ==
  ret.fn = "NewTester" =>
    LET o == arg.opts
        bad == \/ URLMissing(o) \/ URLInvalid(o) \/ RequestsInvalid(o)
               \/ NilWriterGiven(o)
    IN /\ bad => ret.err # "nil" /\ ret.tester = NoTester
       /\ NilWriterGiven(o) => ret.err = "ErrValueCannotBeNil"
       /\ (URLMissing(o) /\ ~NilWriterGiven(o)) => ret.err = "ErrNoURL"
       /\ ~bad => /\ ret.err = "nil"
                  /\ ret.tester.Work = "open"
                  /\ ret.tester.URL = GivenURL(o)
                  /\ ret.tester.requests = GivenRequests(o)
       /\ run = "configured" /\ stats = ZeroStats
       /\ \A w \in Workers : pc[w] = "unstarted"

C18_Witness ==
  /\ ret.fn = "NewTester"
  /\ ret.err # "nil"
  /\ ret.tester = NoTester
  /\ GivenURL(arg.opts) = "bogus-no-host://"
  /\ ~RequestsInvalid(arg.opts)
  /\ ~NilWriterGiven(arg.opts)

\* ---------------------------------------------------------------- C19
\* C19 as stated: the error is that of the earliest violated check in the
\* order URL presence, URL parse/host, request count, writer non-nil.
C19_Original ==
  ret.fn = "NewTester" =>
    LET o == arg.opts IN
      ret.err = IF URLMissing(o) THEN "ErrNoURL"
                ELSE IF GivenURL(o) \in UnparsableURLs THEN "ErrURLParse"
                ELSE IF URLInvalid(o) THEN "ErrInvalidURL"
                ELSE IF RequestsInvalid(o) THEN "ErrInvalidRequests"
                ELSE IF NilWriterGiven(o) THEN "ErrValueCannotBeNil"
                ELSE "nil"

\* C19: the error is that of the earliest violated check in the order writer
\* non-nil (checked while the options are applied), URL presence, URL
\* parse/host, request count.
C19_WriterCheckedFirst ==
  ret.fn = "NewTester" =>
    LET o == arg.opts IN
      ret.err = IF NilWriterGiven(o) THEN "ErrValueCannotBeNil"
                ELSE IF URLMissing(o) THEN "ErrNoURL"
                ELSE IF GivenURL(o) \in UnparsableURLs THEN "ErrURLParse"
                ELSE IF URLInvalid(o) THEN "ErrInvalidURL"
                ELSE IF RequestsInvalid(o) THEN "ErrInvalidRequests"
                ELSE "nil"

C19_Witness ==
  /\ ret.fn = "NewTester"
  /\ URLMissing(arg.opts)
  /\ RequestsInvalid(arg.opts)
  /\ NilWriterGiven(arg.opts)
  /\ ret.err = "ErrValueCannotBeNil"

\* ================================================================ C20
AfterWait == run \notin {"configured", "wait"}

\* C20: Run reaches SetMetrics only after each of the Concurrency workers has
\* returned from DoRequest and called wg.Done: from then on no worker is
\* running, no worker position changes, the Requests, Successes and Failures
\* counters do not change, and the samples change only by the sort of
\* SetMetrics.
C20_MetricsAfterAllWorkers ==
  /\ [](AfterWait =>
          /\ \A w \in Workers : w <= Concurrency => pc[w] = "done"
          /\ \A w \in Workers : w > Concurrency => pc[w] = "unstarted"
          /\ spawned = Concurrency
          /\ wg = 0)
  /\ [][AfterWait =>
          /\ pc' = pc
          /\ stats'.Requests = stats.Requests
          /\ stats'.Successes = stats.Successes
          /\ stats'.Failures = stats.Failures
          /\ ExecutionsTime' # ExecutionsTime =>
               run = "metrics" /\ ExecutionsTime' = SortedTimes(ExecutionsTime)]_vars

C20_Witness ==
  /\ run = "metrics"
  /\ Concurrency = MaxConcurrency
  /\ \A w \in Workers : pc[w] = "done"
  /\ stats.Requests = MaxRequests
  /\ Len(ExecutionsTime) >= 2

\* ================================================================ scheduling
\* What the Go scheduler gives: a goroutine that can run, or a send that has a
\* ready receiver, does not wait forever.
ProducerStep == (\E w \in Workers : Handoff(w)) \/ CloseWork

WorkerStep(w) ==
  \/ RangeEnd(w) \/ RecordRequest(w) \/ ClientDo(w) \/ RecordTime(w)
  \/ RecordSuccess(w) \/ RecordFailure(w) \/ WgDone(w)

RunStep ==
  RunStart \/ WgWait \/ RunSetMetrics \/ RunGraphs \/ RunExport \/ RunReport

Fairness ==
  /\ WF_vars(ProducerStep)
  /\ WF_vars(Spawn)
  /\ \A w \in Workers : WF_vars(WorkerStep(w))
  /\ WF_vars(RunStep)

FairSpec == Init /\ [][Next]_vars /\ Fairness

\* ---------------------------------------------------------------- progress
\* A bound on the steps still to come: every step of Next lowers it, so no
\* run goes on for ever, and under the fairness above a run goes on until no
\* step is enabled.
RunRanks ==
  [configured |-> 6, wait |-> 5, metrics |-> 4, graphs |-> 3, export |-> 2,
   report |-> 1, returned |-> 0]

ProducerRanks == [unstarted |-> 3, send |-> 2, close |-> 1, done |-> 0]

WorkerRanks ==
  [unstarted |-> 7, record |-> 6, call |-> 5, rectime |-> 4, recsucc |-> 3,
   recfail |-> 3, recv |-> 2, exit |-> 1, done |-> 0]

RECURSIVE WorkersRank(_)
WorkersRank(n) ==
  IF n = 0 THEN 0 ELSE WorkerRanks[pc[n]] + WorkersRank(n - 1)

Measure ==
  RunRanks[run] + ProducerRanks[producer] + 5 * (requests - x)
    + WorkersRank(MaxConcurrency)

StepsLowerMeasure == [][Measure' < Measure]_vars

\* ---------------------------------------------------------------- C21
\* Every started worker has returned after a failure while the producer still
\* has a token to send: no receiver is left for it.
Stranded ==
  /\ producer = "send"
  /\ spawned = Concurrency
  /\ \A w \in Workers : w <= Concurrency => failed[w]

\* C21 as stated: under fair scheduling, in a run with at least one worker,
\* the Work channel is eventually closed, after exactly `requests` sends, and
\* the producer finishes, also when workers stop early after failures.
C21_Original ==
  Concurrency >= 1 => <>(Work = "closed" /\ x = requests /\ producer = "done")

\* C21: the producer never completes more than `requests` sends and closes
\* the Work channel only after exactly `requests` sends, finishing with the
\* close; under fair scheduling the channel is eventually closed (no run goes
\* on for ever, and a run can stop only with the channel closed) unless every
\* one of the Concurrency workers has returned after a failure while tokens
\* remain unsent, and then the producer stays blocked on its send for ever.
C21_ClosedUnlessStranded ==
  /\ [](x <= requests)
  /\ [](Work = "closed" <=> producer = "done")
  /\ [](Work = "closed" => x = requests)
  /\ StepsLowerMeasure
  /\ [](Work = "closed" \/ Stranded \/ ENABLED Next)
  /\ [][Stranded => Stranded' /\ x' = x /\ Work' = "open"]_vars

C21_Witness ==
  /\ Work = "closed"
  /\ producer = "done"
  /\ x = requests
  /\ requests = MaxRequests
  /\ \E w \in Workers : failed[w]

\* ---------------------------------------------------------------- C22
\* C22: under fair scheduling, with every call returning, Run eventually
\* returns, with nil or with an error, for every request count, concurrency
\* and outcome of the calls, also when every worker has exited before the
\* producer has sent all its tokens: no run goes on for ever, a run can stop
\* only after Run has returned, and a returned Run keeps its result.
C22_RunTerminates ==
  /\ StepsLowerMeasure
  /\ [](Returned \/ ENABLED Next)
  /\ [](Returned => result \in {"nil", "ErrTimeNotRecorded", "ErrIO"})
  /\ [][Returned => Returned' /\ result' = result]_vars

C22_Witness ==
  /\ Returned
  /\ Stranded
  /\ Concurrency >= 1
  /\ result = "nil"
  /\ ~ENABLED Next

\* ---------------------------------------------------------------- C23
\* Workers between their RecordRequest and their RecordSuccess/RecordFailure.
Attempting ==
  {w \in Workers : pc[w] \in {"call", "rectime", "recsucc", "recfail"}}

\* C23: in every reachable state Successes + Failures <= Requests <= the
\* configured request count, Requests - (Successes + Failures) is the number
\* of workers between RecordRequest and their RecordSuccess/RecordFailure,
\* which is at most Concurrency, and a worker about to issue its call has
\* counted the attempt for its token.
C23_AttemptCountedFirst ==
  /\ stats.Successes + stats.Failures <= stats.Requests
  /\ stats.Requests <= requests
  /\ stats.Requests - (stats.Successes + stats.Failures)
       = Cardinality(Attempting)
  /\ Cardinality(Attempting) <= Concurrency
  /\ \A w \in Workers : pc[w] = "call" => reqOf[tok[w]] = 1
  /\ \A w \in Workers : pc[w] = "record" => reqOf[tok[w]] = 0

C23_Witness ==
  /\ Cardinality(Attempting) = MaxConcurrency
  /\ stats.Requests = MaxRequests
  /\ stats.Successes + stats.Failures = MaxRequests - MaxConcurrency

\* ---------------------------------------------------------------- C25
\* C25: in every reachable state Failures <= Concurrency, whatever the
\* request count and the outcomes of the calls.
C25_FailuresAtMostConcurrency ==
  /\ stats.Failures <= Concurrency
  /\ stats.Failures = Cardinality({w \in Workers : failed[w]})

C25_Witness ==
  /\ Returned
  /\ requests > Concurrency
  /\ Concurrency = MaxConcurrency
  /\ stats.Failures = Concurrency
  /\ stats.Successes >= 1

\* ---------------------------------------------------------------- C26
MinOf(a, b) == IF a < b THEN a ELSE b

\* C26: when Run has returned from a run in which every call failed
\* (transport error or non-200), Requests = Failures = min(configured
\* request count, Concurrency) and Successes = 0.
C26_AllFailOnePerWorker ==
  (Returned /\ outcomes["ok200"] = 0) =>
    /\ stats.Requests = MinOf(requests, Concurrency)
    /\ stats.Failures = MinOf(requests, Concurrency)
    /\ stats.Successes = 0

C26_Witness ==
  /\ Returned
  /\ outcomes["ok200"] = 0
  /\ Concurrency = 1
  /\ requests = MaxRequests
  /\ stats.Requests = 1
  /\ stats.Failures = 1

\* ================================================================ RecordTime
\* TimeRecorder.RecordTime called by concurrent callers on one TimeRecorder:
\* t.mu.Lock(), the append (the slice is read, then the grown slice is
\* stored), and the deferred t.mu.Unlock().
MaxCallers == 2

Callers == 1..MaxCallers

\* What the recorder holds before the calls.
EarlierSamples == {<<>>, <<8, 5>>}

InitRecorder ==
  /\ FreshTester
  /\ stats = ZeroStats
  /\ ExecutionsTime \in EarlierSamples
  /\ arg \in {[fn |-> "RecordTime", earlier |-> ExecutionsTime, vals |-> vs] :
                vs \in [Callers -> SampleValues]}
  /\ ret = NoRet
  /\ rt = [mu |-> 0, at |-> [c \in Callers |-> "lock"],
           read |-> [c \in Callers |-> <<>>]]

LockGrantedAlways(mu) == TRUE
\* sync.Mutex.Lock returns only while no one holds the mutex.
LockGranted(mu) == mu = 0

\* t.mu.Lock()
RecorderLock(c) ==
  /\ rt.at[c] = "lock"
  /\ LockGranted(rt.mu)
  /\ rt' = [rt EXCEPT !.mu = c, !.at[c] = "read"]
  /\ UNCHANGED <<poolVars, stats, ExecutionsTime, arg, ret>>

\* append(t.ExecutionsTime, executionTime) reads the slice ...
RecorderRead(c) ==
  /\ rt.at[c] = "read"
  /\ rt' = [rt EXCEPT !.read[c] = ExecutionsTime, !.at[c] = "store"]
  /\ UNCHANGED <<poolVars, stats, ExecutionsTime, arg, ret>>

\* ... and t.ExecutionsTime = stores the grown slice.
RecorderStore(c) ==
  /\ rt.at[c] = "store"
  /\ ExecutionsTime' = RecordTimeAppend(rt.read[c], arg.vals[c])
  /\ rt' = [rt EXCEPT !.read[c] = <<>>, !.at[c] = "unlock"]
  /\ UNCHANGED <<poolVars, stats, arg, ret>>

\* defer t.mu.Unlock(), and the call returns.
RecorderUnlock(c) ==
  /\ rt.at[c] = "unlock"
  /\ rt' = [rt EXCEPT !.mu = 0, !.at[c] = "done"]
  /\ UNCHANGED <<poolVars, stats, ExecutionsTime, arg, ret>>

NextRecorder ==
  \E c \in Callers :
    RecorderLock(c) \/ RecorderRead(c) \/ RecorderStore(c) \/ RecorderUnlock(c)

SpecRecorder == InitRecorder /\ [][NextRecorder]_vars

\* ---------------------------------------------------------------- C24
\* The callers whose append has been stored.
Recorded == {c \in Callers : rt.at[c] \in {"unlock", "done"}}

CountIn(times, v) == Cardinality({i \in DOMAIN times : times[i] = v})

IsPrefix(a, b) == Len(a) <= Len(b) /\ SubSeq(b, 1, Len(a)) = a

\* C24: under every interleaving of concurrent RecordTime calls, after k
\* calls have stored their sample the list is k longer than before and holds
\* exactly the earlier samples and the k recorded values, as a multiset; and
\* no step removes or changes an entry recorded before it.
C24_AtomicAppendOnly ==
  /\ [](/\ Len(ExecutionsTime) = Len(arg.earlier) + Cardinality(Recorded)
        /\ IsPrefix(arg.earlier, ExecutionsTime)
        /\ \A v \in SampleValues :
             CountIn(ExecutionsTime, v) =
               CountIn(arg.earlier, v)
                 + Cardinality({c \in Recorded : arg.vals[c] = v}))
  /\ [][IsPrefix(ExecutionsTime, ExecutionsTime')]_vars

C24_Witness ==
  /\ \A c \in Callers : rt.at[c] = "done"
  /\ arg.earlier = <<8, 5>>
  /\ arg.vals[1] # arg.vals[2]
  /\ Len(ExecutionsTime) = 2 + MaxCallers
  /\ ExecutionsTime[3] = arg.vals[2]

\* ================================================================ NewTester, then Run
\* A Tester built by NewTester from its options and then run, as main does:
\* Run is only called on the Tester of a NewTester call that returned no
\* error.
RunOption(name, str, int, bool) == [opt |-> name, s |-> str, n |-> int, b |-> bool]

RunOptionSeqs ==
  {<<>>}
  \cup { << RunOption("WithURL", TesterURL, 0, FALSE),
            RunOption("WithRequests", "", k, FALSE),
            RunOption("WithConcurrency", "", c, FALSE),
            RunOption("WithGraphs", "", 0, g),
            RunOption("WithExportStats", "", 0, e) >> :
           k \in 1..MaxRequests, c \in 0..MaxConcurrency,
           g \in BOOLEAN, e \in BOOLEAN }

InitBuildRun ==
  /\ FreshTester
  /\ stats = ZeroStats
  /\ ExecutionsTime = <<>>
  /\ arg \in {[fn |-> "NewTester", opts |-> os] : os \in RunOptionSeqs}
  /\ ret = NoRet
  /\ rt = NoCallers

\* tester, err := bench.NewTester(opts...): the fields Run reads are those
\* of the Tester returned.
BuildTester ==
  /\ ret = NoRet
  /\ ret' = NewTester(arg.opts)
  /\ IF ret'.err = "nil"
     THEN /\ requests' = ret'.tester.requests
          /\ Concurrency' = ret'.tester.Concurrency
          /\ Graphs' = ret'.tester.Graphs
          /\ ExportStats' = ret'.tester.ExportStats
          /\ Work' = ret'.tester.Work
     ELSE UNCHANGED <<cfgVars, Work>>
  /\ UNCHANGED <<wg, x, producer, spawned, workerVars, runVars, histVars,
                 stats, ExecutionsTime, arg, rt>>

\* if err != nil { ...; os.Exit(1) } else tester.Run()
Built == ret # NoRet /\ ret.err = "nil"

NextBuildRun == BuildTester \/ (Built /\ Next)

SpecBuildRun == InitBuildRun /\ [][NextBuildRun]_vars

\* ---------------------------------------------------------------- C27
GivenConcurrency(opts) ==
  LastOf(opts, "WithConcurrency",
         RunOption("WithConcurrency", "", DefaultConcurrency, FALSE)).n

\* The Tester NewTester returned has Concurrency 0.
BuiltWithoutWorkers == Built /\ GivenConcurrency(arg.opts) = 0

\* C27: NewTester does not validate the concurrency level: with a valid URL
\* and request count and Concurrency 0 it returns no error and a Tester with
\* Concurrency 0.  Run on that Tester starts no worker, attempts no request
\* (Requests, Successes and Failures stay 0, no sample is recorded), goes
\* step by step to its return with ErrTimeNotRecorded, and its producer, once
\* started, stays blocked on its first send: nothing is sent and Work is
\* never closed.
C27_ZeroConcurrencyAccepted ==
  /\ []((ret # NoRet /\ arg.opts # <<>> /\ GivenConcurrency(arg.opts) = 0)
          => /\ ret.err = "nil"
             /\ ret.tester.Concurrency = 0
             /\ Concurrency = 0)
  /\ [](BuiltWithoutWorkers
          => /\ spawned = 0 /\ wg = 0
             /\ \A w \in Workers : pc[w] = "unstarted"
             /\ stats.Requests = 0 /\ stats.Successes = 0
             /\ stats.Failures = 0
             /\ ExecutionsTime = <<>>
             /\ x = 0 /\ produced = {} /\ Work = "open"
             /\ producer = (IF run = "configured" THEN "unstarted" ELSE "send")
             /\ (Returned => result = "ErrTimeNotRecorded")
             /\ (Returned \/ ENABLED NextBuildRun))
  /\ [][BuiltWithoutWorkers => RunRanks[run'] < RunRanks[run]]_vars
  /\ [][(BuiltWithoutWorkers /\ producer = "send")
          => (producer' = "send" /\ x' = 0 /\ Work' = "open")]_vars

C27_Witness ==
  /\ BuiltWithoutWorkers
  /\ Returned
  /\ requests = MaxRequests
  /\ result = "ErrTimeNotRecorded"
  /\ producer = "send" /\ x = 0
  /\ stats.Requests = 0
  /\ ~ENABLED NextBuildRun

====
